---------------------------- MODULE Spec2Model ----------------------------
(***************************************************************************)
(* A model of FUSED-Wake's turbine-geometry engine and wake dispatcher:    *)
(*   fusedwake/WindTurbine.py   WindTurbine, WindTurbineDICT               *)
(*   fusedwake/WindFarm.py      WindTurbineList, WindFarm                  *)
(*   fusedwake/gcl/__init__.py  GCL (the multi-backend dispatcher)         *)
(*                                                                         *)
(* Numbers are fixed point: wind speeds in m/s, powers in kW, thrust       *)
(* coefficients and induction factors in thousandths, positions in m.      *)
(* Three specifications share the module: SpecWT (one turbine and its      *)
(* curve look-ups), SpecWF (one farm and its geometry queries) and Spec    *)
(* (one dispatcher object and the calls made on it).                       *)
(***************************************************************************)
EXTENDS Integers, Sequences, FiniteSets, TLC

VARIABLES
    wt,      \* SpecWT: the WindTurbine object
    ret,     \* SpecWT: what the last method call on wt returned or raised
    wf,      \* SpecWF: the outcome of WindFarm.__init__ (the object, or the raise)
    out,     \* SpecWF: what the last method call on wf returned
    gcl,     \* Spec: the attributes of the GCL object (name -> value)
    last     \* Spec: the observation of the last GCL call

vars == <<wt, ret, wf, out, gcl, last>>

(***************************************************************************)
(* Python values.  Every value is a record of the same five fields so that *)
(* values of different Python types can be compared: k is the type, n a    *)
(* number, s a string, shape/data an array (row-major data).               *)
(***************************************************************************)
Val(kind, num, str, shp, dat) ==
    [k |-> kind, n |-> num, s |-> str, shape |-> shp, data |-> dat]

Unset == Val("unset", 0, "", <<>>, <<>>)     \* hasattr(obj, name) is False
None == Val("none", 0, "", <<>>, <<>>)
NaN == Val("nan", 0, "", <<>>, <<>>)
Num(x) == Val("num", x, "", <<>>, <<>>)
Str(x) == Val("str", 0, x, <<>>, <<>>)
Arr(shp, dat) == Val("arr", 0, "", shp, dat)
Raise(type, msg) == Val("raise", 0, type, <<>>, <<msg>>)

IsNum(v) == v.k = "num"
IsArr(v) == v.k = "arr"
IsRaise(v) == v.k = "raise"

Min(a, b) == IF a <= b THEN a ELSE b
Max(a, b) == IF a >= b THEN a ELSE b

RECURSIVE SeqMax(_)
SeqMax(s) == IF Len(s) = 1 THEN s[1] ELSE Max(s[1], SeqMax(Tail(s)))

RECURSIVE Prod(_)
Prod(s) == IF s = <<>> THEN 1 ELSE s[1] * Prod(Tail(s))

Column(rows, c) == [i \in 1..Len(rows) |-> rows[i][c]]

(***************************************************************************)
(* WindTurbine.py                                                          *)
(***************************************************************************)

\* scipy's interp1d(x, y) as constructed at WindTurbine.py:60-65: linear, and
\* (bounds_error left at its default) a ValueError outside [x[0], x[-1]].
interpolator(x, y, v) ==
    IF v < x[1] THEN Raise("ValueError", "below the interpolation range")
    ELSE IF v > x[Len(x)] THEN Raise("ValueError", "above the interpolation range")
    ELSE LET i == CHOOSE j \in 1..Len(x) : x[j] <= v /\ (j = Len(x) \/ v < x[j+1])
         IN  IF x[i] = v THEN Num(y[i])
             ELSE Num(y[i] + ((y[i+1] - y[i]) * (v - x[i])) \div (x[i+1] - x[i]))

\* bool * value, as numpy computes it: the value is evaluated first, so a
\* raise in it propagates whatever the mask is.
Masked(mask, v) ==
    IF IsRaise(v) THEN v ELSE IF mask THEN v ELSE Num(0)

\* WindTurbine.__init__ + wt_init: the object built from a curve table whose
\* rows are (u, P, CT).
WindTurbine(name, refCurvesArray, H, R, CT_idle) ==
    LET ref_u == Column(refCurvesArray, 1)
        ref_P == Column(refCurvesArray, 2)
        ref_CT == Column(refCurvesArray, 3)
        P_rated == SeqMax(ref_P)
        index == CHOOSE i \in 1..Len(ref_P) :
                    /\ ref_P[i] = P_rated
                    /\ \A j \in 1..(i-1) : ref_P[j] # P_rated
    IN  [cls |-> "WindTurbine", name |-> name, H |-> H, R |-> R,
         CT_idle |-> CT_idle,
         ref_u |-> ref_u, ref_P |-> ref_P, ref_CT |-> ref_CT,
         u_cutin |-> ref_u[1], u_cutout |-> ref_u[Len(ref_u)],
         P_rated |-> P_rated,
         PCI_x |-> ref_u, PCI_y |-> ref_P,
         CTCI_x |-> ref_u, CTCI_y |-> ref_CT,
         PCI_u_x |-> SubSeq(ref_P, 1, index), PCI_u_y |-> SubSeq(ref_u, 1, index),
         u_rated |-> interpolator(SubSeq(ref_P, 1, index), SubSeq(ref_u, 1, index),
                                  P_rated).n]

PCI(t, u) == interpolator(t.PCI_x, t.PCI_y, u)
CTCI(t, u) == interpolator(t.CTCI_x, t.CTCI_y, u)
PCI_u(t, P) == interpolator(t.PCI_u_x, t.PCI_u_y, P)

get_P(t, u) == Masked(u >= t.u_cutin /\ u <= t.u_cutout, PCI(t, u))

get_u(t, P) == Masked(P >= 0 /\ P <= t.P_rated, PCI_u(t, P))

\* mask*CTCI(u) + (not mask)*CT_idle
get_CT(t, u) ==
    LET inside == Masked(u >= t.u_cutin /\ u <= t.u_cutout, CTCI(t, u))
        outside == Masked(u < t.u_cutin \/ u > t.u_cutout, Num(t.CT_idle))
    IN  IF IsRaise(inside) THEN inside ELSE Num(inside.n + outside.n)

\* Thousandths: One stands for 1.0.
One == 1000

\* np.sqrt on thousandths: not-a-number (and a RuntimeWarning, no exception)
\* below zero, else the root rounded down to a thousandth.
np_sqrt(x) ==
    IF x < 0 THEN NaN
    ELSE Num(CHOOSE r \in 0..(2 * One) :
                r * r <= x * One /\ (r + 1) * (r + 1) > x * One)

\* 0.5 * (1. - np.sqrt(1. - CT)); arithmetic on not-a-number gives not-a-number.
get_a(t, CT) ==
    LET root == np_sqrt(One - CT)
    IN  IF root.k = "nan" THEN NaN ELSE Num((One - root.n) \div 2)


(***************************************************************************)
(* WindTurbineDICT: a turbine built from a windIO record wt and its type   *)
(* template wt_type.  A dict is a function from its keys to values.        *)
(***************************************************************************)
Update(d, e) == [k \in DOMAIN d \cup DOMAIN e |-> IF k \in DOMAIN e THEN e[k] ELSE d[k]]

\* rows of an array of shape (rows, 2)
Rows(a) == [i \in 1..a.shape[1] |-> <<a.data[2 * i - 1], a.data[2 * i]>>]

\* __init__ + wt_init.  self.data is the wt_type dict itself, updated in
\* place with wt, so every wt_type[...] read in wt_init sees the update.
WindTurbineDICT(wtd, wt_type0) ==
    LET wt_type == Update(wt_type0, wtd)
        power_factor == 1000
        pc == Rows(wt_type["power_curve"])
        ctc == Rows(wt_type["c_t_curve"])
        pc_P == [i \in 1..Len(pc) |-> pc[i][2] * power_factor]
        P_rated == wt_type["rated_power"].n * power_factor
        index == CHOOSE i \in 1..Len(pc_P) :
                    /\ pc_P[i] = P_rated
                    /\ \A j \in 1..(i-1) : pc_P[j] # P_rated
    IN  [cls |-> "WindTurbineDICT", data |-> wt_type,
         name |-> wtd["name"].s, turbine_type |-> wtd["turbine_type"].s,
         position |-> wtd["position"], type |-> wt_type["name"].s,
         H |-> wt_type["hub_height"].n, R |-> wt_type["rotor_diameter"].n \div 2,
         CT_idle |-> IF "c_t_idle" \in DOMAIN wtd THEN wt_type["c_t_idle"].n ELSE 56,
         u_cutin |-> wt_type["cut_in_wind_speed"].n,
         u_cutout |-> wt_type["cut_out_wind_speed"].n,
         P_rated |-> P_rated,
         PCI_x |-> Column(pc, 1), PCI_y |-> pc_P,
         CTCI_x |-> Column(ctc, 1), CTCI_y |-> Column(ctc, 2),
         PCI_u_x |-> SubSeq(pc_P, 1, index), PCI_u_y |-> SubSeq(Column(pc, 1), 1, index),
         u_rated |-> wt_type["rated_wind_speed"].n]

(***************************************************************************)
(* WindFarm.py.  Matrices are sequences of rows; turbines are numbered     *)
(* from 1 (Python's index i is i+1 here).                                  *)
(***************************************************************************)

\* WindFarm.__getattr__(key) for key = 'H': [getattr(wt, key) for wt in self.WT]
FarmAttrH(WTs) == [i \in 1..Len(WTs) |-> WTs[i].H]

\* np.repeat(np.atleast_2d(xyz[:, i]).T, nWT, axis=1): column i, nWT times
RepeatColumn(xyz, i, nWT) == [c \in 1..Len(xyz) |-> [j \in 1..nWT |-> xyz[c][i]]]

MatSub(a, b) == [c \in 1..Len(a) |-> [j \in 1..Len(a[c]) |-> a[c][j] - b[c][j]]]

\* np.swapaxes(t, 0, 1) of a list t[i][c][j]
swapaxes01(t) == [c \in 1..Len(t[1]) |-> [i \in 1..Len(t) |-> t[i][c]]]

\* a variant with the subtraction reversed
vectWTtoWTMutantSign(xyz, nWT) ==
    swapaxes01([i \in 1..nWT |-> MatSub(RepeatColumn(xyz, i, nWT), xyz)])

\* self.vectWTtoWT[:, i, j]: the vector from turbine i to turbine j
vectWTtoWT(xyz, nWT) ==
    swapaxes01([i \in 1..nWT |-> MatSub(xyz, RepeatColumn(xyz, i, nWT))])

\* The tail of __init__ (lines 89-96), after one of the four branches set
\* pos, nWT and WT: np.vstack needs as many heights as pos has columns.
FarmGeometry(path, name, pos, WTs) ==
    LET nWT == Len(pos[1])
        H == FarmAttrH(WTs)
        xyz == pos \o <<H>>
    IN  IF Len(H) # nWT
        THEN [ok |-> FALSE, path |-> path,
              exc |-> Raise("ValueError", "all the input array dimensions must match")]
        ELSE [ok |-> TRUE, path |-> path, name |-> name, pos |-> pos, nWT |-> nWT,
              WT |-> WTs, xyz |-> xyz, vectWTtoWT |-> vectWTtoWT(xyz, nWT)]

\* array.any()
array_any(m) == \E r \in 1..Len(m) : \E j \in 1..Len(m[r]) : m[r][j] # 0

Transpose(m) == [c \in 1..Len(m[1]) |-> [r \in 1..Len(m) |-> m[r][c]]]

\* WTLayout(yml): the turbine records, their type templates and positions
LayoutTurbines(yml) ==
    [i \in 1..Len(yml.wt_list) |->
        WindTurbineDICT(yml.wt_list[i], yml.types[yml.wt_list[i]["turbine_type"].s])]

\* A keyword argument: given with a value, or left at its default None.
Given(x) == [given |-> TRUE, v |-> x]
Absent == [given |-> FALSE]

\* WindFarm.__init__(name, yml, coordFile, array, WT); coordFile stands for
\* the array np.loadtxt reads from it.
WindFarm(name, yml, coordFile, array, WT) ==
    LET noWT == [ok |-> FALSE, path |-> "none",    \* [WT for i in ...] of None
                 exc |-> Raise("AttributeError", "'NoneType' object has no attribute 'H'")]
    IN
    IF coordFile.given
    THEN IF ~WT.given THEN noWT
         ELSE FarmGeometry("coordFile",
                           IF name.given THEN name.v ELSE "Unknown wind farm",
                           coordFile.v, [i \in 1..Len(coordFile.v[1]) |-> WT.v])
    ELSE IF yml.given /\ array.given
    THEN FarmGeometry("yml+array", yml.v.name, array.v, LayoutTurbines(yml.v))
    ELSE IF yml.given
    THEN FarmGeometry("yml", yml.v.name, Transpose(yml.v.positions), LayoutTurbines(yml.v))
    ELSE IF ~array.given
    THEN [ok |-> FALSE, path |-> "none",
          exc |-> Raise("AttributeError", "'NoneType' object has no attribute 'any'")]
    ELSE IF array_any(array.v)
    THEN IF ~WT.given THEN noWT
         ELSE FarmGeometry("array", "", array.v, [i \in 1..Len(array.v[1]) |-> WT.v])
    ELSE \* no branch taken: self.pos -> __getattr__ -> iterating self.WT = None
         [ok |-> FALSE, path |-> "none",
          exc |-> Raise("TypeError", "'NoneType' object is not iterable")]

\* cos and sin of np.radians(270. - wd) at the right angles, as floating
\* point gives them: Unit stands for 1.0 and 1 for 6.1e-17, the residue of
\* the rounded pi (cos(pi/2) = 6.1e-17, sin(pi) = 1.2e-16, cos(3pi/2) = -1.8e-16).
Unit == 10000

cosAngle(wd) ==
    CASE wd = 0 -> -3 [] wd = 90 -> -Unit [] wd = 180 -> 1 [] wd = 270 -> Unit
      [] wd = 360 -> 1

sinAngle(wd) ==
    CASE wd = 0 -> -Unit [] wd = 90 -> 2 [] wd = 180 -> Unit [] wd = 270 -> 0
      [] wd = 360 -> -Unit

ROT(wd) == << <<cosAngle(wd), sinAngle(wd)>>, <<-sinAngle(wd), cosAngle(wd)>> >>

\* np.einsum('ij,jkl->ikl', ROT, vect[:2, :, :])
einsum(R, v) ==
    [i \in 1..2 |-> [k \in 1..Len(v[1]) |-> [l \in 1..Len(v[1][k]) |->
        R[i][1] * v[1][k][l] + R[i][2] * v[2][k][l]]]]

\* a variant that counts the positive offsets
CountNegativeMutantPositive(row) == Cardinality({l \in 1..Len(row) : row[l] > 0})

\* (row < 0).sum()
CountNegative(row) == Cardinality({l \in 1..Len(row) : row[l] < 0})

\* np.argsort: the indices in ascending order of their keys (for so few
\* elements numpy sorts by insertion, which keeps equal keys in index order)
argsort(keys) ==
    [r \in 1..Len(keys) |->
        CHOOSE i \in 1..Len(keys) :
            Cardinality({j \in 1..Len(keys) :
                keys[j] < keys[i] \/ (keys[j] = keys[i] /\ j < i)}) = r - 1]

turbineDistance(farm, wd) ==
    LET distFlowCoord == einsum(ROT(wd), farm.vectWTtoWT)
        nDownstream == [i \in 1..farm.nWT |-> CountNegative(distFlowCoord[1][i])]
    IN  [distFlowCoord |-> distFlowCoord, nDownstream |-> nDownstream,
         ID0 |-> argsort(nDownstream)]

get_T2T_gl_coord(farm) ==
    LET g(c) == [i \in 1..farm.nWT |-> [j \in 1..farm.nWT |->
                    farm.xyz[c][j] - farm.xyz[c][i]]]
    IN  [x_g |-> g(1), y_g |-> g(2), z_g |-> g(3)]

get_T2T_gl_coord2(farm) ==
    [x_g |-> farm.vectWTtoWT[1], y_g |-> farm.vectWTtoWT[2], z_g |-> farm.vectWTtoWT[3]]

(***************************************************************************)
(* gcl/__init__.py: the GCL dispatcher.  The object is its attribute       *)
(* dictionary: every name it may hold maps to a value, Unset when the      *)
(* attribute does not exist.  A kwargs dictionary is the same, Unset for   *)
(* a key that is not passed.                                               *)
(***************************************************************************)
inputs ==
    [v \in {"py_gcl_v0", "py_gcl_v1", "fort_gcl_av", "fort_gcl", "fort_gcl_s"} |->
        CASE v = "py_gcl_v0" -> <<"WF", "WS", "WD", "TI", "z0", "NG", "sup", "pars">>
          [] v = "py_gcl_v1" ->
                <<"WF", "WS", "WD", "TI", "z0", "alpha", "inflow", "NG", "sup", "pars">>
          [] v = "fort_gcl_av" ->
                <<"x_g", "y_g", "z_g", "dt", "p_c", "ct_c", "ws", "wd", "ti",
                  "av", "a1", "a2", "a3", "a4", "b1", "b2", "ng", "rho", "ws_ci",
                  "ws_co", "ct_idle">>
          [] v = "fort_gcl" ->
                <<"x_g", "y_g", "z_g", "dt", "p_c", "ct_c", "ws", "wd", "ti",
                  "a1", "a2", "a3", "a4", "b1", "b2", "ng", "rho", "ws_ci",
                  "ws_co", "ct_idle">>
          [] v = "fort_gcl_s" ->
                <<"x_g", "y_g", "z_g", "dt", "p_c", "ct_c", "WS", "WD", "TI",
                  "a1", "a2", "a3", "a4", "b1", "b2", "NG", "rho", "ws_ci",
                  "ws_co", "ct_idle">>]

\* a variant that leaves one version out
versionsMutantShort == <<"fort_gcl", "fort_gcl_av", "py_gcl_v0", "py_gcl_v1">>

\* list(self.inputs.keys()), sorted
versions == <<"fort_gcl", "fort_gcl_av", "fort_gcl_s", "py_gcl_v0", "py_gcl_v1">>

Range(f) == {f[i] : i \in DOMAIN f}

AttrNames ==
    UNION {Range(inputs[v]) : v \in DOMAIN inputs}
        \cup {"version", "wt_available", "p_wt", "t_wt", "u_wt", "c_t"}

Dict(f) == [k \in AttrNames |-> IF k \in DOMAIN f THEN f[k] ELSE Unset]

\* rho in thousandths, z0 and pars in millionths, alpha in thousandths
defaults ==
    Dict("rho" :> Num(1225) @@ "version" :> Str("py_gcl_v1") @@ "z0" :> Num(100)
         @@ "sup" :> Str("lin") @@ "alpha" :> Num(101)
         @@ "pars" :> Arr(<<6>>, <<435450, 797854, -124808, 136822, 15629800, 1000000>>)
         @@ "inflow" :> Str("log") @@ "NG" :> Num(4))

hasattr(a, k) == a[k] # Unset

\* An exception in flight: its type and message and, for the dispatcher's
\* own wrapper, the version and the cause it names and whether it names the
\* projected arguments (those of the run that raised it).
NoArgs == [k \in {"wf"} \cup UNION {Range(inputs[v]) : v \in DOMAIN inputs} |-> Unset]
NoExc == [type |-> "", msg |-> <<>>, version |-> "", args |-> FALSE, cause |-> ""]
Exc(type, msg) == [type |-> type, msg |-> msg, version |-> "", args |-> FALSE, cause |-> ""]
\* "... version=[%s]" % '|'.join(names): the message and the names it lists
Listing(text, names) == <<text>> \o names
Raised(st) == st.exc.type # ""

\* The run of a method: the attributes so far, the exception that ended it
\* (if any), the backend it invoked and the arguments it passed.
Run(a) == [a |-> a, exc |-> NoExc, backend |-> "none", args |-> NoArgs, stage |-> "start"]
Fail(st, type, msg) == [st EXCEPT !.exc = Exc(type, msg)]
Text(msg) == <<msg>>
At(st, stage) == IF Raised(st) THEN st ELSE [st EXCEPT !.stage = stage]

\* self.k = v, where evaluating v may raise
Assign(st, k, v) ==
    IF Raised(st) THEN st
    ELSE IF IsRaise(v) THEN Fail(st, v.s, v.data)
    ELSE [st EXCEPT !.a[k] = v]

\* self.k: the attribute, or the AttributeError of reading a missing one
Attr(a, k) == IF hasattr(a, k) THEN a[k] ELSE Raise("AttributeError", k)

(***************************************************************************)
(* numpy arrays: shape and row-major data                                  *)
(***************************************************************************)
RECURSIVE Flatten(_)
Flatten(rows) == IF rows = <<>> THEN <<>> ELSE rows[1] \o Flatten(Tail(rows))

RECURSIVE Tile(_, _)
Tile(dat, k) == IF k = 0 THEN <<>> ELSE dat \o Tile(dat, k - 1)

Mat(m) == Arr(<<Len(m), Len(m[1])>>, Flatten(m))
Fill(shp, x) == Arr(shp, [i \in 1..Prod(shp) |-> x])
len(v) == v.shape[1]

\* np.array([x])
np_array1(x) ==
    IF IsRaise(x) THEN x
    ELSE IF IsNum(x) THEN Arr(<<1>>, <<x.n>>)
    ELSE Arr(<<1>> \o x.shape, x.data)

\* np.vstack([x for i in range(k)])
vstack(x, k) ==
    IF Len(x.shape) = 1 THEN Arr(<<k, x.shape[1]>>, Tile(x.data, k))
    ELSE Arr(<<k * x.shape[1]>> \o Tail(x.shape), Tile(x.data, k))

\* x[0]
Item0(x) ==
    IF Len(x.shape) = 1 THEN Num(x.data[1])
    ELSE Arr(Tail(x.shape), SubSeq(x.data, 1, Prod(Tail(x.shape))))

\* a list of values as one array
PackList(vs) ==
    IF \A i \in 1..Len(vs) : IsNum(vs[i])
    THEN Arr(<<Len(vs)>>, [i \in 1..Len(vs) |-> vs[i].n])
    ELSE Arr(<<Len(vs)>> \o vs[1].shape, Flatten([i \in 1..Len(vs) |-> vs[i].data]))

(***************************************************************************)
(* The farm a dispatcher is given, and the attribute forwarding of         *)
(* WindFarm.__getattr__, WindTurbineList.__getattr__ and                   *)
(* WindTurbineDICT.__getattr__.                                            *)
(***************************************************************************)
\* getattr(wt, key) for a key that is no instance attribute of the turbine
TurbineGetattr(t, key) ==
    IF t.cls # "WindTurbineDICT"
    THEN Raise("AttributeError", key)
    ELSE IF key \notin DOMAIN t.data THEN Raise("KeyError", key)
    ELSE t.data[key]

\* WindFarm.__getattr__: [getattr(wt, key) for wt in self.WT]
FarmGetattr(farm, key) ==
    LET vs == [i \in 1..Len(farm.WT) |-> TurbineGetattr(farm.WT[i], key)]
        bad == {i \in 1..Len(vs) : IsRaise(vs[i])}
    IN  IF bad # {} THEN vs[CHOOSE i \in bad : \A j \in bad : i <= j]
        ELSE PackList(vs)

\* WindTurbineList.__getattr__: the attribute of the first turbine
ListGetattr(WTs, key) == TurbineGetattr(WTs[1], key)

(***************************************************************************)
(* SpecWT: one WindTurbine object and the look-ups made on it.             *)
(***************************************************************************)
MaxWindSpeed == 30      \* wind speeds asked for: 0..MaxWindSpeed m/s
MaxPowerSteps == 10     \* powers asked for: 0, 250, .. kW
MaxCTSteps == 10        \* thrust coefficients asked for: 0, 0.125, ..

\* Curve tables (u [m/s], P [kW], CT [thousandths]) a refCurvesFile holds.
RefCurves ==
    << << <<4, 100, 800>>, <<8, 1000, 800>>, <<12, 2000, 700>>, <<25, 2000, 200>> >>,
       << <<3, 0, 900>>, <<10, 1500, 750>>, <<16, 1500, 500>>, <<20, 1400, 300>> >> >>

\* CT_idle=0.053 is the constructor's default (WindTurbine.py:21).
IdleCTs == <<53, 100>>

WindSpeeds == 0..MaxWindSpeed
PowerInputs == {250 * i : i \in 0..MaxPowerSteps}
CTInputs == {125 * i : i \in 0..MaxCTSteps}

NoCall == [op |-> "none", arg |-> 0, val |-> None]

IdleWF == None
IdleGCL == None

InitWT ==
    /\ \E c \in 1..Len(RefCurves), i \in 1..Len(IdleCTs) :
          wt = WindTurbine("wt", RefCurves[c], 70, 40, IdleCTs[i])
    /\ ret = NoCall
    /\ wf = IdleWF /\ out = NoCall /\ gcl = IdleGCL /\ last = None

Call_get_P ==
    /\ \E u \in WindSpeeds : ret' = [op |-> "get_P", arg |-> u, val |-> get_P(wt, u)]
    /\ UNCHANGED <<wt, wf, out, gcl, last>>

Call_get_u ==
    /\ \E P \in PowerInputs : ret' = [op |-> "get_u", arg |-> P, val |-> get_u(wt, P)]
    /\ UNCHANGED <<wt, wf, out, gcl, last>>

Call_get_CT ==
    /\ \E u \in WindSpeeds : ret' = [op |-> "get_CT", arg |-> u, val |-> get_CT(wt, u)]
    /\ UNCHANGED <<wt, wf, out, gcl, last>>

Call_get_a ==
    /\ \E CT \in CTInputs : ret' = [op |-> "get_a", arg |-> CT, val |-> get_a(wt, CT)]
    /\ UNCHANGED <<wt, wf, out, gcl, last>>

NextWT == Call_get_P \/ Call_get_u \/ Call_get_CT \/ Call_get_a

SpecWT == InitWT /\ [][NextWT]_vars

\* C9: for every wind speed outside [cutIn, cutOut], power returns 0 and
\* thrustCoefficient returns exactly idleThrustCoefficient, as ordinary values:
\* no interpolation/domain error reaches the caller.
OutsideEnvelope(u) == u < wt.u_cutin \/ u > wt.u_cutout

C9_OutOfEnvelopeDefaults ==
    /\ (ret.op = "get_P" /\ OutsideEnvelope(ret.arg)) => ret.val = Num(0)
    /\ (ret.op = "get_CT" /\ OutsideEnvelope(ret.arg)) => ret.val = Num(wt.CT_idle)

\* C10: inductionFactor(ct) is 0.5 * (1 - sqrt(1 - ct)) for ct <= 1 and fails
\* with a PhysicalRangeError for every ct > 1; it returns no value (such as
\* not-a-number) for ct > 1.
C10_InductionFactorRange ==
    ret.op = "get_a" =>
        /\ ret.arg <= One =>
              /\ IsNum(ret.val)
              /\ LET r == One - 2 * ret.val.n     \* sqrt(1 - ct), to a thousandth
                 IN  /\ r >= 0
                     /\ r = 0 \/ (r - 1) * (r - 1) <= (One - ret.arg) * One
                     /\ (r + 1) * (r + 1) > (One - ret.arg) * One
        /\ ret.arg > One => IsRaise(ret.val) /\ ret.val.s = "PhysicalRangeError"

(***************************************************************************)
(* SpecWF: one WindFarm, built by any of the constructor's branches, and   *)
(* the geometry queries made on it.                                        *)
(***************************************************************************)
MaxWT == 3     \* turbines in a layout: 1..MaxWT

GridX == {0, 500}
GridY == {0, 500, 1000}
WindDirections == {0, 90, 180, 270, 360}

\* 2 x n position arrays, as np.loadtxt or the caller gives them
Positions ==
    UNION {{<<xs, ys>> : xs \in [1..n -> GridX], ys \in [1..n -> GridY]} : n \in 1..MaxWT}

\* windIO type templates (powers in kW, curves as (rows, 2) arrays)
TurbineTypes ==
    [name \in {"V80", "V90"} |->
        [key \in {"name", "hub_height", "rotor_diameter", "power_curve", "c_t_curve",
                  "cut_in_wind_speed", "cut_out_wind_speed", "rated_power",
                  "rated_wind_speed"} \cup (IF name = "V80" THEN {"c_t_idle"} ELSE {}) |->
            CASE key = "name" -> Str(name)
              [] key = "hub_height" -> Num(IF name = "V80" THEN 70 ELSE 90)
              [] key = "rotor_diameter" -> Num(IF name = "V80" THEN 80 ELSE 90)
              [] key = "power_curve" -> Arr(<<4, 2>>, <<4, 100, 8, 1000, 12, 2000, 25, 2000>>)
              [] key = "c_t_curve" -> Arr(<<4, 2>>, <<4, 800, 8, 800, 12, 700, 25, 200>>)
              [] key = "cut_in_wind_speed" -> Num(4)
              [] key = "cut_out_wind_speed" -> Num(25)
              [] key = "rated_power" -> Num(2000)
              [] key = "rated_wind_speed" -> Num(12)
              [] key = "c_t_idle" -> Num(53)]]

TurbineNames == <<"wt1", "wt2", "wt3", "wt4", "wt5", "wt6">>

\* The WTLayout of a yml file placing turbines at pos; turbine i is of type
\* typeOf[i]
LayoutOf(pos, typeOf) ==
    [name |-> "farm",
     types |-> TurbineTypes,
     positions |-> Transpose(pos),
     wt_list |-> [i \in 1..Len(pos[1]) |->
        [key \in {"name", "turbine_type", "position"} |->
            CASE key = "name" -> Str(TurbineNames[i])
              [] key = "turbine_type" -> Str(typeOf[i])
              [] key = "position" -> Arr(<<2>>, <<pos[1][i], pos[2][i]>>)]]]

\* turbines of alternating types
Layout(pos) == LayoutOf(pos, [i \in 1..Len(pos[1]) |-> IF i % 2 = 1 THEN "V80" ELSE "V90"])

\* n turbines in a row along y
RowPositions(n) == <<[i \in 1..n |-> 0], [i \in 1..n |-> 500 * (i - 1)]>>
RowLayout(n) == Layout(RowPositions(n))

V80 == WindTurbine("V80", RefCurves[1], 70, 40, 53)

InitWF ==
    /\ \/ \E p \in Positions :
            \/ wf = WindFarm(Given("farm"), Absent, Given(p), Absent, Given(V80))
            \/ wf = WindFarm(Absent, Absent, Absent, Given(p), Given(V80))
            \/ wf = WindFarm(Absent, Given(Layout(p)), Absent, Absent, Absent)
            \/ \E n \in 1..2 :
                 wf = WindFarm(Absent, Given(RowLayout(n)), Absent, Given(p), Absent)
       \/ wf = WindFarm(Absent, Absent, Absent, Absent, Absent)
    /\ out = NoCall
    /\ wt = None /\ ret = NoCall /\ gcl = IdleGCL /\ last = None

Call_turbineDistance ==
    /\ wf.ok
    /\ \E wd \in WindDirections :
         out' = [op |-> "turbineDistance", arg |-> wd, val |-> turbineDistance(wf, wd)]
    /\ UNCHANGED <<wt, ret, wf, gcl, last>>

Call_get_T2T_gl_coord ==
    /\ wf.ok
    /\ out' = [op |-> "get_T2T_gl_coord", arg |-> 0, val |-> get_T2T_gl_coord(wf)]
    /\ UNCHANGED <<wt, ret, wf, gcl, last>>

Call_get_T2T_gl_coord2 ==
    /\ wf.ok
    /\ out' = [op |-> "get_T2T_gl_coord2", arg |-> 0, val |-> get_T2T_gl_coord2(wf)]
    /\ UNCHANGED <<wt, ret, wf, gcl, last>>

NextWF == Call_turbineDistance \/ Call_get_T2T_gl_coord \/ Call_get_T2T_gl_coord2

SpecWF == InitWF /\ [][NextWF]_vars

\* The farm of the scenario: turbines at (0,0), (0,500), (0,1000), in that order.
ScenarioFarm == wf.ok /\ wf.pos = <<<<0, 0, 0>>, <<0, 500, 1000>>>>

ScenarioOrdering ==
    ScenarioFarm /\ out.op = "turbineDistance" /\ out.arg = 180

\* C7 as stated: for the 3-turbine farm at (0,0), (0,500), (0,1000) and wind
\* direction 180, the turbine at (0,0) has downstreamCount 2 and ranks
\* most-upstream, and the turbine at (0,1000) has downstreamCount 0 and ranks
\* most-downstream.
C7_OrderingAsStated ==
    ScenarioOrdering =>
        /\ out.val.nDownstream[1] = 2 /\ out.val.ID0[1] = 1
        /\ out.val.nDownstream[3] = 0 /\ out.val.ID0[3] = 3

\* C7 amended: in that scenario the turbine at (0,0) has count 0 (no turbine
\* has a negative flow-frame offset from it) and ranks first (most-upstream);
\* the turbine at (0,1000) has count 2 and ranks last (most-downstream).
C7_OrderingAmended ==
    ScenarioOrdering =>
        /\ out.val.nDownstream[1] = 0 /\ out.val.ID0[1] = 1
        /\ out.val.nDownstream[3] = 2 /\ out.val.ID0[3] = 3

C7_Witness == ScenarioOrdering /\ out.val.nDownstream = <<0, 1, 2>>

\* C8: for every farm built by any constructor path and every pair (i, j),
\* relativeVectors[i][j] = positions[j] - positions[i] = -relativeVectors[j][i],
\* and every diagonal entry is the zero vector (positions = x, y of the layout
\* and z = the turbine's hub height).
C8_RelativeVectors ==
    wf.ok =>
        /\ wf.xyz = wf.pos \o <<[i \in 1..wf.nWT |-> wf.WT[i].H]>>
        /\ \A c \in 1..3 : \A i, j \in 1..wf.nWT :
             /\ wf.vectWTtoWT[c][i][j] = wf.xyz[c][j] - wf.xyz[c][i]
             /\ wf.vectWTtoWT[c][i][j] = -wf.vectWTtoWT[c][j][i]
             /\ wf.vectWTtoWT[c][i][i] = 0

\* a farm of turbines of different hub heights, at different places
C8_Witness ==
    /\ wf.ok /\ wf.path = "yml" /\ wf.nWT = 3
    /\ wf.vectWTtoWT[3][1][2] = 20 /\ wf.vectWTtoWT[2][1][3] = 1000
    /\ wf.vectWTtoWT[1][3][2] = -500

\* C11: every farm the constructor builds has N >= 1 turbines, positions and
\* turbine specs aligned one to one, and pairwise distinct (x, y): a layout
\* whose counts differ or in which two turbines share the same (x, y) is
\* rejected and no farm with a relative-position tensor is produced.
C11_LayoutValidated ==
    wf.ok =>
        /\ wf.nWT >= 1
        /\ Len(wf.WT) = wf.nWT /\ Len(wf.pos[1]) = wf.nWT /\ Len(wf.pos[2]) = wf.nWT
        /\ \A i, j \in 1..wf.nWT :
             i # j => <<wf.pos[1][i], wf.pos[2][i]>> # <<wf.pos[1][j], wf.pos[2][j]>>

(***************************************************************************)
(* The dispatcher's methods.                                               *)
(***************************************************************************)
MaxCases == 2       \* flow cases in one query: 1..MaxCases
MaxFarmWT == 2      \* turbines of a farm handed to the dispatcher: 1..MaxFarmWT

\* The farms a caller may pass as WF: farms of V80 turbines read from a yml
\* layout, one turbine to MaxFarmWT in a row.
GclFarms ==
    [n \in 1..MaxFarmWT |->
        WindFarm(Absent, Given(LayoutOf(RowPositions(n), [i \in 1..n |-> "V80"])),
                 Absent, Absent, Absent)]

\* the yml layout with the idle thrust coefficient ct [thousandths] written
\* on every turbine record
WithIdleCT(yml, ct) ==
    [yml EXCEPT !.wt_list =
        [i \in 1..Len(yml.wt_list) |-> Update(yml.wt_list[i], "c_t_idle" :> Num(ct))]]

\* One-turbine farms that differ in where the idle thrust coefficient is
\* given: on the turbine record (overriding the V80 template's), or nowhere
\* (the V90 template has none).  GclFarms are the third case: on the
\* template only.
IdleCTOnRecord == MaxFarmWT + 1
IdleCTNowhere == MaxFarmWT + 2

IdleFarms ==
    [n \in {IdleCTOnRecord, IdleCTNowhere} |->
        WindFarm(Absent,
                 Given(IF n = IdleCTOnRecord
                       THEN WithIdleCT(LayoutOf(RowPositions(1), <<"V80">>), 60)
                       ELSE LayoutOf(RowPositions(1), <<"V90">>)),
                 Absent, Absent, Absent)]

FarmRef(n) == Val("farm", n, "", <<>>, <<>>)
Farm(v) == IF v.n \in DOMAIN GclFarms THEN GclFarms[v.n] ELSE IdleFarms[v.n]

\* for k, v in dic.items(): setattr(self, k, v)
setattrs(a, dic) == [k \in AttrNames |-> IF dic[k] # Unset THEN dic[k] ELSE a[k]]

\* lines 60-62: x_g, y_g, z_g = self.WF.get_T2T_gl_coord()
grid(st, g) ==
    Assign(Assign(Assign(st, "x_g", Mat(g.x_g)), "y_g", Mat(g.y_g)), "z_g", Mat(g.z_g))

\* lines 60-66: the geometry and the turbine curves pulled from the farm
pull(st, farm) ==
    Assign(Assign(Assign(Assign(Assign(Assign(grid(st, get_T2T_gl_coord(farm)),
        "dt", FarmGetattr(farm, "rotor_diameter")),
        "p_c", FarmGetattr(farm, "power_curve")),
        "ct_c", FarmGetattr(farm, "c_t_curve")),
        "ws_ci", FarmGetattr(farm, "cut_in_wind_speed")),
        "ws_co", FarmGetattr(farm, "cut_out_wind_speed")),
        "ct_idle", FarmGetattr(farm, "c_t_idle"))

\* GCL.set
set(a, dic) ==
    IF dic["WF"] = Unset THEN Run(setattrs(a, dic))
    ELSE pull(Run(setattrs(a, dic)), Farm(dic["WF"]))

\* k.lower()
lower(k) ==
    CASE k = "WS" -> "ws" [] k = "WD" -> "wd" [] k = "TI" -> "ti"
      [] k = "NG" -> "ng" [] k = "WF" -> "wf" [] OTHER -> k

\* 'py' in version
HasPy(version) == version \in {"py_gcl_v0", "py_gcl_v1"}

\* The keyword each declared input of a version is passed under: the name
\* itself for the python versions, lower-cased for the fortran versions.
keyword ==
    [v \in DOMAIN inputs |->
        [n \in {"wf"} \cup UNION {Range(inputs[w]) : w \in DOMAIN inputs} |->
            IF HasPy(v)
            THEN IF n \in Range(inputs[v]) THEN n ELSE ""
            ELSE IF \E k \in Range(inputs[v]) : lower(k) = n
                 THEN CHOOSE k \in Range(inputs[v]) : lower(k) = n
                 ELSE ""]]

\* GCL._get_kwargs: the attributes the version declares, those that exist
_get_kwargs(a, version) ==
    [n \in DOMAIN keyword[version] |->
        IF keyword[version][n] # "" THEN a[keyword[version][n]] ELSE Unset]

(***************************************************************************)
(* The wake backends (fortran.gcl, gcl_av, gcl_s; python.gcl.GCLarsen,     *)
(* GCLarsen_v0): called by keyword, they return three parallel arrays      *)
(* shaped (numCases x numTurbines), or (numTurbines) for the single-case   *)
(* backends, or fail.  An outcome is a failure or the values returned.     *)
(***************************************************************************)
BackendFailure == [ok |-> FALSE, p |-> 0, t |-> 0, u |-> 0, ct |-> 0]

\* power [kW], thrust [N], wind speed [m/s], thrust coefficient [thousandths]
BackendOutcomes ==
    {BackendFailure,
     [ok |-> TRUE, p |-> 2000, t |-> 50000, u |-> 8, ct |-> 797]}

\* A backend cannot run without the arguments that size its result.
BackendCanRun(name, args) ==
    IF name \in {"gcl", "gcl_av"} THEN IsArr(args["ws"]) /\ IsArr(args["dt"])
    ELSE IF name = "gcl_s" THEN args["ws"] # Unset /\ IsArr(args["dt"])
    ELSE args["WF"] # Unset /\ args["WS"] # Unset

BackendShape(name, args) ==
    IF name \in {"gcl", "gcl_av"} THEN <<len(args["ws"]), len(args["dt"])>>
    ELSE IF name = "gcl_s" THEN <<len(args["dt"])>>
    ELSE <<Farm(args["WF"]).nWT>>

\* t_wt / (0.5 * A * rho * u_wt**2.0), element by element (thousandths)
ThrustCoefficient(t_wt, A, rho, u_wt) ==
    Arr(t_wt.shape,
        [i \in 1..Len(t_wt.data) |->
            (t_wt.data[i] * 1000) \div ((A * rho * u_wt.data[i] * u_wt.data[i]) \div 2000)])

Scale(x, f) == Arr(x.shape, [i \in 1..Len(x.data) |-> x.data[i] * f])

\* lines 84-87 and 119-122: a scalar WS promotes WS, WD and TI
promote(st) ==
    IF ~hasattr(st.a, "WS") THEN Fail(st, "AttributeError", Text("WS"))
    ELSE IF ~IsNum(st.a["WS"]) THEN st
    ELSE Assign(Assign(Assign(st, "ws", np_array1(st.a["WS"])),
                       "wd", np_array1(Attr(st.a, "WD"))),
                "ti", np_array1(Attr(st.a, "TI")))

\* lines 88-95: the availability matrix for M flow cases and N turbines
wt_available(st, M, N) ==
    IF ~hasattr(st.a, "wt_available")
    THEN Assign(Assign(st, "wt_available", Fill(<<M, N>>, 1)), "av", Fill(<<M, N>>, 1))
    ELSE IF st.a["wt_available"].shape = <<M, N>>
    THEN Assign(st, "av", st.a["wt_available"])
    ELSE Assign(st, "av", vstack(st.a["wt_available"], M))

availability(st) ==
    IF Raised(st) THEN st
    ELSE IF ~hasattr(st.a, "ws") THEN Fail(st, "AttributeError", Text("ws"))
    ELSE IF ~hasattr(st.a, "WF") THEN Fail(st, "AttributeError", Text("WF"))
    ELSE wt_available(st, len(st.a["ws"]), Farm(st.a["WF"]).nWT)

\* pars[i] * np.ones_like(self.ws)
ones_like(st, i) ==
    IF ~hasattr(st.a, "ws") THEN Raise("AttributeError", "ws")
    ELSE Fill(st.a["ws"].shape, st.a["pars"].data[i])

\* lines 96-101 and 123-128
coefficients(st) ==
    Assign(Assign(Assign(Assign(Assign(Assign(st,
        "a1", ones_like(st, 1)), "a2", ones_like(st, 2)), "a3", ones_like(st, 3)),
        "a4", ones_like(st, 4)), "b1", ones_like(st, 5)), "b2", ones_like(st, 6))

\* the backend is entered with the projected arguments
called(st, name) ==
    [st EXCEPT !.backend = name, !.args = _get_kwargs(st.a, st.a["version"].s),
               !.stage = "backend"]

\* except Exception as e: raise Exception('The fortran version failed', version, kwargs, e)
wrapped(st) ==
    [st EXCEPT !.exc = [type |-> "Exception", msg |-> Text("The fortran version failed"),
                        version |-> st.a["version"].s, args |-> TRUE,
                        cause |-> "backend error"]]

\* self.p_wt, self.t_wt, self.u_wt = <the arrays returned>
returned(st, shp, outcome) ==
    [st EXCEPT !.a["p_wt"] = Fill(shp, outcome.p),
               !.a["t_wt"] = Fill(shp, outcome.t),
               !.a["u_wt"] = Fill(shp, outcome.u)]

\* try: self.p_wt, self.t_wt, self.u_wt = fgcl.<name>(**kwargs)
try(st, name, outcome) ==
    IF ~outcome.ok \/ ~BackendCanRun(name, st.args) THEN wrapped(st)
    ELSE returned(st, BackendShape(name, st.args), outcome)

invoke(st, name, outcome) ==
    IF Raised(st) THEN st ELSE try(called(st, name), name, outcome)

\* A = 0.25 * D**2.0; self.c_t = ...; self.p_wt *= 1.0E3
c_t(st, D) ==
    IF IsRaise(D) THEN Fail(st, D.s, D.data)
    ELSE Assign(Assign(st, "c_t",
                       ThrustCoefficient(st.a["t_wt"], (D.n * D.n) \div 4,
                                         st.a["rho"].n, st.a["u_wt"])),
                "p_wt", Scale(st.a["p_wt"], 1000))

\* lines 105-109 and 131-135 and 148-152, D = self.WF.WT.rotor_diameter
thrust_and_power(st) ==
    IF Raised(st) THEN st
    ELSE IF ~hasattr(st.a, "WF")
    THEN Fail([st EXCEPT !.stage = "post"], "AttributeError", Text("WF"))
    ELSE c_t([st EXCEPT !.stage = "post"],
             ListGetattr(Farm(st.a["WF"]).WT, "rotor_diameter"))

\* if len(self.ws) == 1: the results lose the case dimension
debatch(st) ==
    IF Raised(st) \/ len(st.a["ws"]) # 1 THEN st
    ELSE Assign(Assign(Assign(st, "p_wt", Item0(st.a["p_wt"])),
                       "u_wt", Item0(st.a["u_wt"])),
                "c_t", Item0(st.a["c_t"]))

fort_gcl_av(st, outcome) ==
    At(debatch(thrust_and_power(
        invoke(coefficients(availability(promote(st))), "gcl_av", outcome))), "done")

fortran_gcl(st, outcome) ==
    At(debatch(thrust_and_power(
        invoke(coefficients(promote(st)), "gcl", outcome))), "done")

\* self.a1, ..., self.b2 = self.pars
pars(st, i) == Num(st.a["pars"].data[i])

fortran_gcl_s(st, outcome) ==
    At(thrust_and_power(invoke(
        Assign(Assign(Assign(Assign(Assign(Assign(st,
            "a1", pars(st, 1)), "a2", pars(st, 2)), "a3", pars(st, 3)),
            "a4", pars(st, 4)), "b1", pars(st, 5)), "b2", pars(st, 6)),
        "gcl_s", outcome)), "done")

\* self.p_wt, self.u_wt, self.c_t = <the arrays returned>
returned_py(st, shp, outcome) ==
    [st EXCEPT !.a["p_wt"] = Fill(shp, outcome.p),
               !.a["u_wt"] = Fill(shp, outcome.u),
               !.a["c_t"] = Fill(shp, outcome.ct),
               !.stage = "done"]

\* self.p_wt, self.u_wt, self.c_t = gcl.<name>(**kwargs): no try around it
run_py(st, name, outcome) ==
    IF ~outcome.ok \/ ~BackendCanRun(name, st.args)
    THEN [st EXCEPT !.exc = Exc("BackendError", Text("backend error"))]
    ELSE returned_py(st, BackendShape(name, st.args), outcome)

python(st, name, outcome) == run_py(called(st, name), name, outcome)

python_v0(st, outcome) == python(st, "GCLarsen_v0", outcome)
python_v1(st, outcome) == python(st, "GCLarsen", outcome)

\* lines 165-180: the dispatch on self.version
dispatch(st, outcome) ==
    IF Raised(st) THEN st
    ELSE IF hasattr(st.a, "version")
    THEN IF st.a["version"] = Str("py_gcl_v0") THEN python_v0(At(st, "dispatch"), outcome)
         ELSE IF st.a["version"] = Str("py_gcl_v1") THEN python_v1(At(st, "dispatch"), outcome)
         ELSE IF st.a["version"] = Str("fort_gcl_av") THEN fort_gcl_av(At(st, "dispatch"), outcome)
         ELSE IF st.a["version"] = Str("fort_gcl_s") THEN fortran_gcl_s(At(st, "dispatch"), outcome)
         ELSE IF st.a["version"] = Str("fort_gcl") THEN fortran_gcl(At(st, "dispatch"), outcome)
         ELSE IF st.a["version"].s \notin Range(versions)
         THEN Fail(At(st, "dispatch"), "Exception",
                   Listing("Version " \o st.a["version"].s \o " is not valid", versions))
         ELSE At(st, "done")
    ELSE Fail(At(st, "dispatch"), "Exception", Listing("Version hasn't been set", versions))

\* GCL.__call__(**kwargs)
__call__(a, kwargs, outcome) == dispatch(set(a, kwargs), outcome)

\* GCL.__init__(**kwargs)
GCL(kwargs) == set(set([k \in AttrNames |-> Unset], defaults).a, kwargs)

(***************************************************************************)
(* Spec: one dispatcher, constructed with or without a version and a farm, *)
(* then reconfigured (set) and called any number of times.                 *)
(***************************************************************************)
NoKwargs == Dict(<<>>)

\* the five versions and two names that are none of them
VersionKwargs ==
    {Dict("version" :> Str(v)) : v \in DOMAIN inputs \cup {"unknown", "fort0"}}

FarmKwargs == {Dict("WF" :> FarmRef(n)) : n \in DOMAIN GclFarms \cup DOMAIN IdleFarms}

\* the geometry of the one-turbine farm passed key by key, without the farm
GeometryKwargs ==
    {[k \in AttrNames |->
        IF k \in {"x_g", "y_g", "z_g", "dt", "p_c", "ct_c", "ws_ci", "ws_co", "ct_idle"}
        THEN set(NoKwargs, Dict("WF" :> FarmRef(1))).a[k] ELSE Unset]}

\* a scalar query: WS [m/s], WD [deg], TI [thousandths]
ScalarQueries == {Dict("WS" :> Num(8) @@ "WD" :> Num(270) @@ "TI" :> Num(100))}

\* a query of m flow cases: as WS, WD, TI alone, or together with the
\* lower-case ws, wd, ti the fortran versions declare
CaseVectors(m) ==
    Dict("WS" :> Arr(<<m>>, [i \in 1..m |-> 5 + i])
         @@ "WD" :> Arr(<<m>>, [i \in 1..m |-> 90 * i])
         @@ "TI" :> Fill(<<m>>, 60))

VectorQueries ==
    {CaseVectors(m) : m \in 1..MaxCases}
    \cup
    {[k \in AttrNames |->
        IF k \in {"ws", "wd", "ti"}
        THEN CaseVectors(MaxCases)[CHOOSE K \in {"WS", "WD", "TI"} : lower(K) = k]
        ELSE CaseVectors(MaxCases)[k]]}

\* availability for a farm of n turbines: one value per turbine, or one row
\* per flow case
AvailabilityKwargs(n) ==
    {Dict("wt_available" :> Arr(<<n>>, [i \in 1..n |-> IF i = 1 THEN 0 ELSE 1])),
     Dict("wt_available" :> Arr(<<MaxCases, n>>, [i \in 1..(MaxCases * n) |-> i % 2]))}

\* the turbines of the geometry the dispatcher holds
Turbines(a) == IF hasattr(a, "dt") THEN len(a["dt"]) ELSE 1

\* what set is given: a version or the availability
Settings(a) == VersionKwargs \cup AvailabilityKwargs(Turbines(a))

\* what __call__ is given: nothing or a query
Queries == {NoKwargs} \cup ScalarQueries \cup VectorQueries

\* what the constructor is given: a version or none, and a farm, a farm's
\* geometry or neither
ConstructorKwargs ==
    {setattrs(v, f) : v \in {NoKwargs} \cup VersionKwargs,
                      f \in {NoKwargs} \cup FarmKwargs \cup GeometryKwargs}

\* The observation of an operation: which it was, how far it got, what it
\* raised, the backend it invoked with which arguments; and of the caller so
\* far: whether it has set a version, and the availability it supplied last.
Observe(op, st, kwargs, before) ==
    [op |-> op, stage |-> st.stage, exc |-> st.exc, backend |-> st.backend,
     args |-> st.args,
     versionGiven |-> kwargs["version"] # Unset \/ before.versionGiven,
     supplied |-> IF kwargs["wt_available"] # Unset THEN kwargs["wt_available"]
                  ELSE before.supplied]

NoCaller == [versionGiven |-> FALSE, supplied |-> Unset]

\* the dispatcher after the constructor returned or raised
Constructed(st, kwargs) ==
    /\ gcl = st.a
    /\ last = Observe("init", st, kwargs, NoCaller)

\* there is an object to call methods on: the constructor did not raise
Exists == ~(last.op = "init" /\ Raised(last))

\* the dispatcher after a method ran: the attributes it left, what was seen
Ran(op, st, kwargs) ==
    /\ gcl' = st.a
    /\ last' = Observe(op, st, kwargs, last)

Init ==
    /\ \E kwargs \in ConstructorKwargs : Constructed(GCL(kwargs), kwargs)
    /\ wt = None /\ ret = NoCall /\ wf = IdleWF /\ out = NoCall

Set ==
    /\ Exists
    /\ \E kwargs \in Settings(gcl) : Ran("set", set(gcl, kwargs), kwargs)
    /\ UNCHANGED <<wt, ret, wf, out>>

Call ==
    /\ Exists
    /\ \E kwargs \in Queries, outcome \in BackendOutcomes :
         Ran("call", __call__(gcl, kwargs, outcome), kwargs)
    /\ UNCHANGED <<wt, ret, wf, out>>

Next == Set \/ Call

Spec == Init /\ [][Next]_vars

(***************************************************************************)
(* Properties of the dispatcher.                                           *)
(***************************************************************************)
Results == {"p_wt", "u_wt", "c_t"}

\* the call got past set and reached the backend, which raised
BackendRaised == last.op = "call" /\ Raised(last) /\ last.stage = "backend"

\* C1: a call on a dispatcher whose version the caller never set raises the
\* "version hasn't been set" error and invokes no backend.
C1_VersionNeverSet ==
    (last.op = "call" /\ ~last.versionGiven) =>
        /\ Raised(last)
        /\ last.exc.msg[1] = "Version hasn't been set"
        /\ last.backend = "none"

C3_BackendFailureWrapped ==
    BackendRaised =>
        /\ last.exc.type = "Exception"
        /\ last.exc.version = gcl["version"].s
        /\ last.exc.args
        /\ last.exc.cause = "backend error"

\* C4: after a call that failed in the backend or in the post-processing,
\* the results are invalidated: no power, wind speed or thrust coefficient
\* of an earlier call remains to be read.
C4_FailureInvalidatesResults ==
    (last.op = "call" /\ Raised(last) /\ last.stage \in {"backend", "post"}) =>
        \A r \in Results : gcl[r] = Unset

\* C5: the availability matrix handed to the per-turbine-availability
\* backend is numCases x numTurbines of the current call: all ones when the
\* caller never supplied availability, the caller's vector in every row when
\* a vector of numTurbines was supplied, and the caller's matrix unchanged
\* when it already has that shape.
C5_AvailabilityMatrix ==
    (last.op = "call" /\ last.backend = "gcl_av"
        /\ IsArr(last.args["ws"]) /\ IsArr(last.args["dt"])) =>
        /\ last.supplied = Unset =>
                last.args["av"] = Fill(<<len(last.args["ws"]), len(last.args["dt"])>>, 1)
        /\ (last.supplied # Unset /\ last.supplied.shape = <<len(last.args["dt"])>>) =>
                /\ last.args["av"].shape = <<len(last.args["ws"]), len(last.args["dt"])>>
                /\ \A i \in 1..len(last.args["ws"]), j \in 1..len(last.args["dt"]) :
                        last.args["av"].data[(i - 1) * len(last.args["dt"]) + j]
                            = last.supplied.data[j]
        /\ (last.supplied # Unset
                /\ last.supplied.shape = <<len(last.args["ws"]), len(last.args["dt"])>>) =>
                last.args["av"] = last.supplied

\* C6: after a successful call of a multi-case backend the results mirror
\* the query: one value per turbine for a scalar WS, numCases x numTurbines
\* for a WS of several flow cases (a vector of exactly one case is left to
\* the rule that removes the case dimension).
C6_ResultsMirrorQuery ==
    (last.op = "call" /\ last.stage = "done" /\ ~Raised(last)
        /\ last.backend \in {"gcl", "gcl_av"}) =>
        \A r \in Results :
            /\ IsNum(gcl["WS"]) => gcl[r].shape = <<len(gcl["dt"])>>
            /\ (IsArr(gcl["WS"]) /\ len(gcl["WS"]) >= 2) =>
                    gcl[r].shape = <<len(gcl["WS"]), len(gcl["dt"])>>

\* the sequence a backend is to receive for the query value v: a scalar
\* promoted to a sequence of one, a vector as given
AsSequence(v) == IF IsNum(v) THEN Arr(<<1>>, <<v.n>>) ELSE v

\* C12: in every fort_gcl or fort_gcl_av invocation the ws, wd and ti handed
\* to the backend are those of the current query's WS, WD and TI (a scalar
\* promoted to a length-1 sequence, a vector passed as given): values
\* promoted during an earlier call are never reused for a later query.
C12_CurrentQueryProjected ==
    (last.op = "call" /\ last.backend \in {"gcl", "gcl_av"}) =>
        /\ last.args["ws"] = AsSequence(gcl["WS"])
        /\ last.args["wd"] = AsSequence(gcl["WD"])
        /\ last.args["ti"] = AsSequence(gcl["TI"])

\* C13: for a farm of turbines built from a type template and a turbine
\* record, whether the idle thrust coefficient is given on the record, on
\* the template only or nowhere, supplying the farm to the dispatcher
\* succeeds and the ct_idle injected for the backend equals, turbine by
\* turbine, the CT_idle the turbine's get_CT uses outside the envelope.
C13_IdleThrustCoefficientInjected ==
    hasattr(gcl, "WF") =>
        /\ Exists
        /\ IsArr(gcl["ct_idle"])
        /\ \A i \in 1..Farm(gcl["WF"]).nWT :
             gcl["ct_idle"].data[i] = Farm(gcl["WF"]).WT[i].CT_idle

=============================================================================
